---------------------------- MODULE Spec2Model ----------------------------
(* Model of syno_tools/similar.py: the AudioStationRemote client (request  *)
(* primitive, construction, status / now-playing / artist search, the      *)
(* memoised similar-artist lookup) and the polling loop of main().         *)
(*                                                                         *)
(* Python dicts are functions over string keys: a missing key is a key     *)
(* outside DOMAIN.  Strings the code takes apart (artist names, capability *)
(* keys) are sequences of characters; strings it only compares are TLA+    *)
(* strings.  A call's outcome is Return(v) or Raise(type, args).           *)
EXTENDS Integers, Sequences, FiniteSets, TLC

VARIABLES
    remote,           \* main(): `remote`, the client object, or NoObject
    network,          \* main(): `network` is set (a LastFMNetwork object)
    SIMILAR_ARTISTS,  \* module global: artist name -> set of names
    current_track,    \* main(): last track scrobbled
    info,             \* main(): result of the last get_now_playing
    pc,               \* main(): position in the loop body
    wire,             \* requests sent to the device by the last operation
    events,           \* collaborator calls made in the current iteration
    waited,           \* seconds slept since the last get_now_playing call
    failed,           \* the current iteration went through the except branch
    polls,            \* iterations completed
    fresh,            \* the current iteration polled a track unlike the last
    crash,            \* the exception that left main(), if any
    result            \* API callers: the last call, its inputs and outcome

vars == <<remote, network, SIMILAR_ARTISTS, current_track, info, pc, wire,
          events, waited, failed, polls, fresh, crash, result>>

-----------------------------------------------------------------------------
(* Bounds of the model *)

MaxPlayers == 2
MaxSimilar == 2
MaxPolls == 2

-----------------------------------------------------------------------------
(* Python values *)

EmptyDict == <<>>
PyNone == [py_none |-> TRUE]
NoObject == [no_object |-> TRUE]
NoExc == "none"
NoCrash == [exc |-> NoExc]

Has(d, k) == k \in DOMAIN d

\* truth value of a dict
Truthy(d) == DOMAIN d # {}

\* {**base, **over}
Merge(base, over) ==
    [k \in (DOMAIN base) \cup (DOMAIN over) |->
        IF k \in DOMAIN over THEN over[k] ELSE base[k]]

Return(v) == [exc |-> NoExc, value |-> v]
Raise(type, a) == [exc |-> type, args |-> a]
Raised(o) == o.exc # NoExc

\* an operation's outcome together with the requests it put on the wire
Done(o, s) == [out |-> o, sent |-> s]

-----------------------------------------------------------------------------
(* Character strings *)

RECURSIVE Replace(_, _, _)
\* str.replace(old, new) for one-character old and new
Replace(s, old, new) ==
    IF s = <<>> THEN <<>>
    ELSE <<IF Head(s) = old THEN new ELSE Head(s)>> \o Replace(Tail(s), old, new)

RECURSIVE SplitFrom(_, _, _)
\* the words of s after the word `cur` already read
SplitFrom(s, sep, cur) ==
    IF s = <<>> THEN {cur}
    ELSE IF Head(s) = sep THEN {cur} \cup SplitFrom(Tail(s), sep, <<>>)
    ELSE SplitFrom(Tail(s), sep, Append(cur, Head(s)))

\* set(s.replace(",", " ").split(" "))
Words(s) == SplitFrom(Replace(s, ",", " "), " ", <<>>)

\* sub in s
Contains(sub, s) ==
    \E i \in 0..(Len(s) - Len(sub)) : SubSeq(s, i + 1, i + Len(sub)) = sub


-----------------------------------------------------------------------------
(* Program constants *)

REMOTE_PLAYER_NAME == "Salon (DLNA)"

\* the marker tested by __post_init__: "Audio"
AudioMarker == <<"A", "u", "d", "i", "o">>

\* a character str.encode() cannot encode (a lone surrogate)
Surrogate == "surrogate"

RemotePlayerError == "RemotePlayerError"
NoInfoFound == [message |-> "No info found"]

InfoPath ==
    [cgi |-> "webapi/entry.cgi", api |-> "SYNO.API.Info", version |-> 1,
     method |-> "query"]

LoginPath(self) ==
    [cgi |-> "webapi/entry.cgi", api |-> "SYNO.API.Auth", version |-> 6,
     method |-> "login", account |-> self.account, passwd |-> self.password,
     session |-> "AudioStation", format |-> "cookie"]

RemotePlayerPath == [cgi |-> "webapi/AudioStation/remote_player.cgi"]
ArtistPath == [cgi |-> "webapi/AudioStation/artist.cgi"]

ListData ==
    [api |-> "SYNO.AudioStation.RemotePlayer", version |-> 3, method |-> "list"]

StatusData(self) ==
    [api |-> "SYNO.AudioStation.RemotePlayerStatus", version |-> 1,
     method |-> "getstatus", id |-> self.player_id, additional |-> "song_tag"]

SearchData(artist) ==
    [api |-> "SYNO.AudioStation.Artist", version |-> 4, method |-> "list",
     filter |-> artist, library |-> "all", limit |-> 10, offset |-> 0,
     additional |-> "avg_rating"]

-----------------------------------------------------------------------------
(* AudioStationRemote.request *)

\* data.encode() succeeds: only the interpolated artist name can fail
Encodable(data) ==
    Has(data, "filter") => \A i \in 1..Len(data.filter) : data.filter[i] # Surrogate

\* A faulty request: it trusts the HTTP status and only reads the
\* envelope of a non-2xx answer.
RequestByStatus(self, verb, path, data, resp) ==
    LET req == [verb |-> verb,
                url |-> [endpoint |-> self.endpoint, path |-> path],
                data |-> data, verify |-> self.verify]
    IN  IF data # PyNone /\ ~Encodable(data)
        THEN Done(Raise("UnicodeEncodeError", EmptyDict), <<>>)
        ELSE IF ~resp.delivered
        THEN Done(Raise("ConnectionError", EmptyDict), <<req>>)
        ELSE IF resp.status_code >= 400 /\ Has(resp.json, "error")
                /\ Truthy(resp.json.error)
        THEN Done(Raise(RemotePlayerError, resp.json.error), <<req>>)
        ELSE Done(Return(resp), <<req>>)

Request(self, verb, path, data, resp) ==
    LET req == [verb |-> verb,
                url |-> [endpoint |-> self.endpoint, path |-> path],
                data |-> data, verify |-> self.verify]
    IN  IF data # PyNone /\ ~Encodable(data)
        THEN Done(Raise("UnicodeEncodeError", EmptyDict), <<>>)
        ELSE IF ~resp.delivered
        THEN Done(Raise("ConnectionError", EmptyDict), <<req>>)
        ELSE IF Has(resp.json, "error") /\ Truthy(resp.json.error)
        THEN Done(Raise(RemotePlayerError, resp.json.error), <<req>>)
        ELSE Done(Return(resp), <<req>>)

\* request(...).json()
RequestJson(self, verb, path, data, resp) ==
    LET r == Request(self, verb, path, data, resp)
    IN  IF Raised(r.out) THEN r ELSE Done(Return(r.out.value.json), r.sent)

query_syno_api_info(self, resp) == RequestJson(self, "get", InfoPath, PyNone, resp)

login(self, resp) == RequestJson(self, "get", LoginPath(self), PyNone, resp)

list_remote_players(self, resp) ==
    RequestJson(self, "post", RemotePlayerPath, ListData, resp)

-----------------------------------------------------------------------------
(* Player resolution and construction *)

KeyError(k) == Raise("KeyError", [key |-> k])

\* indexes of the players the generator expression of get_remote_player_id keeps
Matching(players) ==
    {i \in 1..Len(players) : players[i].name = REMOTE_PLAYER_NAME}

Min(S) == CHOOSE i \in S : \A j \in S : i <= j

\* A faulty resolution: next(..., None), which stores None instead of raising.
GetRemotePlayerIdDefault(self, resp) ==
    LET r == list_remote_players(self, resp)
    IN  IF Raised(r.out) THEN r @@ [self |-> self]
        ELSE IF ~Has(r.out.value, "data")
        THEN [out |-> KeyError("data"), sent |-> r.sent, self |-> self]
        ELSE IF ~Has(r.out.value.data, "players")
        THEN [out |-> KeyError("players"), sent |-> r.sent, self |-> self]
        ELSE LET players == r.out.value.data.players
                 id == IF Matching(players) = {} THEN 0
                       ELSE players[Min(Matching(players))].id
             IN  [out |-> Return([id |-> id]), sent |-> r.sent,
                  self |-> Merge(self, [player_id |-> id])]

get_remote_player_id(self, resp) ==
    LET r == list_remote_players(self, resp)
    IN  IF Raised(r.out) THEN r @@ [self |-> self]
        ELSE IF ~Has(r.out.value, "data")
        THEN [out |-> KeyError("data"), sent |-> r.sent, self |-> self]
        ELSE IF ~Has(r.out.value.data, "players")
        THEN [out |-> KeyError("players"), sent |-> r.sent, self |-> self]
        ELSE LET players == r.out.value.data.players
             IN  IF Matching(players) = {}
                 THEN [out |-> Raise("StopIteration", EmptyDict),
                       sent |-> r.sent, self |-> self]
                 ELSE LET id == players[Min(Matching(players))].id
                      IN  [out |-> Return([id |-> id]), sent |-> r.sent,
                           self |-> Merge(self, [player_id |-> id])]

\* A faulty filter: k.startswith("Audio") instead of "Audio" in k.
AudioVersionsPrefix(data) ==
    [k \in {x \in DOMAIN data : SubSeq(x, 1, Len(AudioMarker)) = AudioMarker}
        |-> data[k]]

\* {k: v for k, v in data.items() if "Audio" in k}
AudioVersions(data) ==
    [k \in {x \in DOMAIN data : Contains(AudioMarker, x)} |-> data[k]]

\* The dataclass fields as __init__ leaves them, before __post_init__.
NewObject(args) ==
    [hostname |-> args.hostname, port |-> args.port, account |-> args.account,
     password |-> args.password, remote_player |-> args.remote_player,
     verify |-> FALSE, last_fm_network |-> args.last_fm_network,
     version |-> 1, versions |-> EmptyDict]

\* A faulty construction: a failed login is swallowed and construction goes on.
PostInitLoginUnchecked(args, infoResp, loginResp, playersResp) ==
    LET self0 == NewObject(args) @@ [endpoint |-> <<args.hostname, args.port>>]
        r1 == query_syno_api_info(self0, infoResp)
    IN  IF Raised(r1.out) THEN r1 @@ [self |-> NoObject]
        ELSE IF ~Has(r1.out.value, "data")
        THEN [out |-> KeyError("data"), sent |-> r1.sent, self |-> NoObject]
        ELSE
        LET self1 == [self0 EXCEPT !.versions = AudioVersions(r1.out.value.data)]
            r2 == login(self1, loginResp)
            r3 == get_remote_player_id(self1, playersResp)
        IN  IF Raised(r3.out)
            THEN [out |-> r3.out, sent |-> r1.sent \o r2.sent \o r3.sent,
                  self |-> NoObject]
            ELSE [out |-> Return(r3.self),
                  sent |-> r1.sent \o r2.sent \o r3.sent, self |-> r3.self]

\* A faulty construction: a failed capability discovery is swallowed, the
\* versions stay empty and construction goes on.
PostInitDiscoveryUnchecked(args, infoResp, loginResp, playersResp) ==
    LET self0 == NewObject(args) @@ [endpoint |-> <<args.hostname, args.port>>]
        r1 == query_syno_api_info(self0, infoResp)
        self1 == IF Raised(r1.out) \/ ~Has(r1.out.value, "data") THEN self0
                 ELSE [self0 EXCEPT !.versions = AudioVersions(r1.out.value.data)]
        r2 == login(self1, loginResp)
    IN  IF Raised(r2.out)
        THEN [out |-> r2.out, sent |-> r1.sent \o r2.sent, self |-> NoObject]
        ELSE
        LET r3 == get_remote_player_id(self1, playersResp)
        IN  IF Raised(r3.out)
            THEN [out |-> r3.out, sent |-> r1.sent \o r2.sent \o r3.sent,
                  self |-> NoObject]
            ELSE [out |-> Return(r3.self),
                  sent |-> r1.sent \o r2.sent \o r3.sent, self |-> r3.self]

\* A faulty construction: it logs in before it asks for the capabilities.
PostInitLoginFirst(args, infoResp, loginResp, playersResp) ==
    LET self0 == NewObject(args) @@ [endpoint |-> <<args.hostname, args.port>>]
        r2 == login(self0, loginResp)
    IN  IF Raised(r2.out) THEN r2 @@ [self |-> NoObject]
        ELSE
        LET r1 == query_syno_api_info(self0, infoResp)
        IN  IF Raised(r1.out)
            THEN [out |-> r1.out, sent |-> r2.sent \o r1.sent, self |-> NoObject]
            ELSE IF ~Has(r1.out.value, "data")
            THEN [out |-> KeyError("data"), sent |-> r2.sent \o r1.sent,
                  self |-> NoObject]
            ELSE
            LET self1 == [self0 EXCEPT
                            !.versions = AudioVersions(r1.out.value.data)]
                r3 == get_remote_player_id(self1, playersResp)
            IN  IF Raised(r3.out)
                THEN [out |-> r3.out, sent |-> r2.sent \o r1.sent \o r3.sent,
                      self |-> NoObject]
                ELSE [out |-> Return(r3.self),
                      sent |-> r2.sent \o r1.sent \o r3.sent, self |-> r3.self]

\* AudioStationRemote(...): the three exchanges of __post_init__, in order.
\* `self` is the object when construction returns, NoObject when it raises.
PostInit(args, infoResp, loginResp, playersResp) ==
    LET self0 == NewObject(args) @@ [endpoint |-> <<args.hostname, args.port>>]
        r1 == query_syno_api_info(self0, infoResp)
    IN  IF Raised(r1.out) THEN r1 @@ [self |-> NoObject]
        ELSE IF ~Has(r1.out.value, "data")
        THEN [out |-> KeyError("data"), sent |-> r1.sent, self |-> NoObject]
        ELSE
        LET self1 == [self0 EXCEPT !.versions = AudioVersions(r1.out.value.data)]
            r2 == login(self1, loginResp)
        IN  IF Raised(r2.out)
            THEN [out |-> r2.out, sent |-> r1.sent \o r2.sent, self |-> NoObject]
            ELSE
            LET r3 == get_remote_player_id(self1, playersResp)
            IN  IF Raised(r3.out)
                THEN [out |-> r3.out, sent |-> r1.sent \o r2.sent \o r3.sent,
                      self |-> NoObject]
                ELSE [out |-> Return(r3.self),
                      sent |-> r1.sent \o r2.sent \o r3.sent, self |-> r3.self]

-----------------------------------------------------------------------------
(* Status and now playing *)

\* request(...).json().get("data", {})
get_remote_player_status(self, resp) ==
    LET r == RequestJson(self, "post", RemotePlayerPath, StatusData(self), resp)
    IN  IF Raised(r.out) THEN r
        ELSE Done(Return(IF Has(r.out.value, "data") THEN r.out.value.data
                         ELSE EmptyDict), r.sent)

\* A faulty get_now_playing: {**song, "title": ...}, the merge written the other way round.
GetNowPlayingTitleLast(self, resp) ==
    LET r == get_remote_player_status(self, resp)
    IN  IF Raised(r.out) THEN r
        ELSE LET st == r.out.value
        IN  IF ~Has(st, "state") THEN Done(KeyError("state"), r.sent)
        ELSE IF st.state # "playing" THEN Done(Return(PyNone), r.sent)
        ELSE IF ~Has(st, "song") THEN Done(KeyError("song"), r.sent)
        ELSE IF ~Has(st.song, "additional")
        THEN Done(KeyError("additional"), r.sent)
        ELSE IF ~Has(st.song.additional, "song_tag")
                \/ ~Truthy(st.song.additional.song_tag)
        THEN Done(Raise(RemotePlayerError, NoInfoFound), r.sent)
        ELSE IF ~Has(st.song, "title") THEN Done(KeyError("title"), r.sent)
        ELSE Done(Return(Merge(st.song.additional.song_tag,
                               [title |-> st.song.title])), r.sent)

\* A faulty get_now_playing: the tag is read before the state is looked at.
GetNowPlayingTagFirst(self, resp) ==
    LET r == get_remote_player_status(self, resp)
    IN  IF Raised(r.out) THEN r
        ELSE LET st == r.out.value
        IN  IF ~Has(st, "song") THEN Done(KeyError("song"), r.sent)
        ELSE IF ~Has(st.song, "additional")
        THEN Done(KeyError("additional"), r.sent)
        ELSE IF ~Has(st, "state") THEN Done(KeyError("state"), r.sent)
        ELSE IF st.state # "playing" THEN Done(Return(PyNone), r.sent)
        ELSE IF ~Has(st.song.additional, "song_tag")
                \/ ~Truthy(st.song.additional.song_tag)
        THEN Done(Raise(RemotePlayerError, NoInfoFound), r.sent)
        ELSE IF ~Has(st.song, "title") THEN Done(KeyError("title"), r.sent)
        ELSE Done(Return(Merge([title |-> st.song.title],
                               st.song.additional.song_tag)), r.sent)

\* A faulty get_now_playing: a track without tag is reported as nothing playing.
GetNowPlayingNoneWithoutTag(self, resp) ==
    LET r == get_remote_player_status(self, resp)
    IN  IF Raised(r.out) THEN r
        ELSE LET st == r.out.value
        IN  IF ~Has(st, "state") THEN Done(KeyError("state"), r.sent)
        ELSE IF st.state # "playing" THEN Done(Return(PyNone), r.sent)
        ELSE IF ~Has(st, "song") THEN Done(KeyError("song"), r.sent)
        ELSE IF ~Has(st.song, "additional")
        THEN Done(KeyError("additional"), r.sent)
        ELSE IF ~Has(st.song.additional, "song_tag")
                \/ ~Truthy(st.song.additional.song_tag)
        THEN Done(Return(PyNone), r.sent)
        ELSE IF ~Has(st.song, "title") THEN Done(KeyError("title"), r.sent)
        ELSE Done(Return(Merge([title |-> st.song.title],
                               st.song.additional.song_tag)), r.sent)

get_now_playing(self, resp) ==
    LET r == get_remote_player_status(self, resp)
    IN  IF Raised(r.out) THEN r
        ELSE LET st == r.out.value
        IN  IF ~Has(st, "state") THEN Done(KeyError("state"), r.sent)
        ELSE IF st.state # "playing" THEN Done(Return(PyNone), r.sent)
        ELSE IF ~Has(st, "song") THEN Done(KeyError("song"), r.sent)
        ELSE IF ~Has(st.song, "additional")
        THEN Done(KeyError("additional"), r.sent)
        ELSE IF ~Has(st.song.additional, "song_tag")
                \/ ~Truthy(st.song.additional.song_tag)
        THEN Done(Raise(RemotePlayerError, NoInfoFound), r.sent)
        ELSE IF ~Has(st.song, "title") THEN Done(KeyError("title"), r.sent)
        ELSE Done(Return(Merge([title |-> st.song.title],
                               st.song.additional.song_tag)), r.sent)

-----------------------------------------------------------------------------
(* Artist search and the memoised similar-artist lookup *)

\* A faulty search: no `except UnicodeEncodeError`, the failure propagates.
SearchForArtistNoExcept(self, artist, resp) ==
    LET r == RequestJson(self, "post", ArtistPath, SearchData(artist), resp)
    IN  IF Raised(r.out) THEN r
        ELSE Done(Return(IF Has(r.out.value, "data") THEN r.out.value.data
                         ELSE EmptyDict), r.sent)

search_for_artist(self, artist, resp) ==
    LET r == RequestJson(self, "post", ArtistPath, SearchData(artist), resp)
    IN  IF r.out.exc = "UnicodeEncodeError" THEN Done(Return(EmptyDict), r.sent)
        ELSE IF Raised(r.out) THEN r
        ELSE Done(Return(IF Has(r.out.value, "data") THEN r.out.value.data
                         ELSE EmptyDict), r.sent)

\* get_similar(network, artist, limit): `answer` is what last.fm does with
\* the one lookup; pylast.WSError becomes the empty list.
get_similar(artist, answer) ==
    IF answer.kind = "WSError" THEN Return([names |-> <<>>])
    ELSE IF answer.kind = "NetworkError" THEN Raise("NetworkError", EmptyDict)
    ELSE Return([names |-> answer.names])

\* the names of `found` sharing a word with artist_ (lines 215-219)
Overlapping(artist_, found) ==
    {found[i].name : i \in {j \in 1..Len(found) :
        Words(artist_) \cap Words(found[j].name) # {}}}

RECURSIVE Collect(_, _, _, _, _)
\* The loop of lines 214-219 over similar[i..], one search per name, with
\* the set and the requests accumulated so far.
Collect(self, similar, resps, acc, sent) ==
    IF similar = <<>> THEN Done(Return([set |-> acc]), sent)
    ELSE LET r == search_for_artist(self, Head(similar), Head(resps))
         IN  IF Raised(r.out) THEN Done(r.out, sent \o r.sent)
             ELSE LET found == IF Has(r.out.value, "artists")
                               THEN r.out.value.artists ELSE <<>>
                  IN  Collect(self, Tail(similar), Tail(resps),
                              acc \cup Overlapping(Head(similar), found),
                              sent \o r.sent)

\* SIMILAR_ARTISTS.get(artist, set())
Cached(cache, artist) == IF artist \in DOMAIN cache THEN cache[artist] ELSE {}

\* The outcome, the requests sent to the device, the number of last.fm
\* lookups and the cache afterwards.
Similar(o, s, n, cache) == [out |-> o, sent |-> s, lookups |-> n, cache |-> cache]

get_similar_artists(self, cache, artist, answer, resps) ==
    IF ~self.last_fm_network THEN Similar(Return([set |-> {}]), <<>>, 0, cache)
    ELSE IF Cached(cache, artist) # {}
    THEN Similar(Return([set |-> Cached(cache, artist)]), <<>>, 0, cache)
    ELSE LET g == get_similar(artist, answer)
         IN  IF Raised(g) THEN Similar(g, <<>>, 1, cache)
             ELSE LET n == Len(g.value.names)
                      c == Collect(self, g.value.names, SubSeq(resps, 1, n),
                                   {}, <<>>)
                  IN  IF Raised(c.out) THEN Similar(c.out, c.sent, 1, cache)
                      ELSE Similar(c.out, c.sent, 1,
                                   Merge(cache, (artist :> c.out.value.set)))

-----------------------------------------------------------------------------
(* What the device and last.fm may answer *)

RECURSIVE SeqsUpTo(_, _)
\* the sequences over S of length at most n
SeqsUpTo(S, n) ==
    IF n = 0 THEN {<<>>}
    ELSE LET shorter == SeqsUpTo(S, n - 1)
         IN  shorter \cup {Append(q, x) : q \in {t \in shorter : Len(t) = n - 1}, x \in S}

ErrorPayloads == {EmptyDict, [code |-> 105], [code |-> 119]}
StatusCodes == {200, 403, 500}

\* the JSON bodies {"error"?: e, "data"?: d}
Envelopes(errors, datas) ==
    {e @@ d : e \in {EmptyDict} \cup {[error |-> x] : x \in errors},
              d \in {EmptyDict} \cup {[data |-> x] : x \in datas}}

Undelivered == [delivered |-> FALSE]

Responses(codes, errors, datas) ==
    {[delivered |-> TRUE, status_code |-> c, json |-> j] :
        c \in codes, j \in Envelopes(errors, datas)}

Ok(data) == [delivered |-> TRUE, status_code |-> 200, json |-> [data |-> data]]

(* capability discovery *)
KeyAuth == <<"A", "P", "I", ".", "A", "u", "t", "h">>
KeyPlayer == <<"A", "u", "d", "i", "o", "S", "t", ".", "R", "P">>
KeyArtist == <<"S", ".", "A", "u", "d", "i", "o", "S", "t">>
KeyLower == <<"S", ".", "a", "u", "d", "i", "o">>

Descriptor(n) == [minVersion |-> 1, maxVersion |-> n, path |-> "entry.cgi"]

AllCapabilities ==
    (KeyAuth :> Descriptor(6)) @@ (KeyPlayer :> Descriptor(3))
    @@ (KeyArtist :> Descriptor(4)) @@ (KeyLower :> Descriptor(2))

InfoDatas ==
    {AllCapabilities, (KeyAuth :> Descriptor(6)) @@ (KeyPlayer :> Descriptor(3)),
     (KeyAuth :> Descriptor(6)) @@ (KeyLower :> Descriptor(2))}

InfoResps ==
    Responses({200}, {[code |-> 119]}, InfoDatas) \cup {Undelivered}

(* login *)
LoginResps ==
    Responses({200, 403}, {EmptyDict, [code |-> 400]}, {[sid |-> "s"]})

(* player listing: a player's id is its place in the device's list *)
PlayerNames == {REMOTE_PLAYER_NAME, "Kitchen"}

Players(names) == [i \in 1..Len(names) |-> [id |-> i, name |-> names[i]]]

PlayerLists == {Players(names) : names \in SeqsUpTo(PlayerNames, MaxPlayers)}

PlayersResps ==
    Responses({200}, {[code |-> 105]}, {[players |-> l] : l \in PlayerLists})

(* player status *)
NameA == <<"a">>
NameAB == <<"a", " ", "b">>
NameBC == <<"b", ",", "c">>
NameD == <<"d">>
NameBad == <<"e", Surrogate>>

Tag(artist, album) ==
    [artist |-> artist, album |-> album, album_artist |-> artist, track |-> 1]

Tags ==
    {Tag(NameA, "x"), Tag(NameD, "y"), Tag(NameA, "x") @@ [title |-> "own"],
     [album |-> "z", track |-> 1]}

Additionals ==
    {EmptyDict, [song_rating |-> 3], [song_tag |-> EmptyDict]}
    \cup {[song_tag |-> t] : t \in Tags}
    \cup {[song_tag |-> Tag(NameA, "x"), song_rating |-> 3]}

Songs ==
    {[id |-> "music_1", title |-> "t1"], [additional |-> [song_tag |-> Tag(NameA, "x")]]}
    \cup {[title |-> "t1", additional |-> a] : a \in Additionals}
    \cup {[title |-> "t2", additional |-> [song_tag |-> t]] : t \in Tags}

States == {"playing", "paused", "stopped"}

StatusDatas ==
    {st @@ so : st \in {EmptyDict} \cup {[state |-> x] : x \in States},
                so \in {EmptyDict} \cup {[song |-> x] : x \in Songs}}

StatusResps ==
    {Ok(d) : d \in StatusDatas}
    \cup Responses({200, 500}, {[code |-> 105]}, {[state |-> "paused"]})
    \cup {Undelivered}

(* the request primitive on its own *)
AnyResps ==
    Responses(StatusCodes, ErrorPayloads, {[players |-> <<>>]}) \cup {Undelivered}

(* artist search *)
Found(names) == [artists |-> [i \in 1..Len(names) |-> [name |-> names[i]]]]

SearchResps ==
    {Ok(Found(<<>>)), Ok(Found(<<NameAB>>)), Ok(Found(<<NameBC, NameD>>)),
     Ok(EmptyDict),
     [delivered |-> TRUE, status_code |-> 200, json |-> [error |-> [code |-> 105]]]}

(* last.fm *)
SimilarNames == {NameA, NameBC}

Answers ==
    {[kind |-> "WSError"], [kind |-> "NetworkError"]}
    \cup {[kind |-> "ok", names |-> l] : l \in SeqsUpTo(SimilarNames, MaxSimilar)}

-----------------------------------------------------------------------------
(* Calling the client's API: any caller, any arguments, any answers *)

NoCall == [op |-> "none"]

Hostnames == {"dsm.local"}
Ports == {"5001"}

CtorArgs ==
    {[hostname |-> h, port |-> p, account |-> "me", password |-> "pw",
      remote_player |-> n, last_fm_network |-> l] :
        h \in Hostnames, p \in Ports, n \in PlayerNames, l \in BOOLEAN}

IdleMain ==
    /\ network = FALSE
    /\ current_track = EmptyDict
    /\ info = PyNone
    /\ pc = "idle"
    /\ events = <<>>
    /\ waited = 0
    /\ failed = FALSE
    /\ polls = 0
    /\ fresh = FALSE
    /\ crash = NoCrash

MainUnchanged ==
    UNCHANGED <<network, current_track, info, pc, events, waited, failed,
                polls, fresh, crash>>

ClientInit ==
    /\ IdleMain
    /\ remote = NoObject
    /\ SIMILAR_ARTISTS = EmptyDict
    /\ wire = <<>>
    /\ result = NoCall

\* remote = AudioStationRemote(**args), once
Construct ==
    /\ result = NoCall
    /\ \E args \in CtorArgs, i \in InfoResps, l \in LoginResps, p \in PlayersResps :
        LET r == PostInit(args, i, l, p)
        IN  /\ remote' = r.self
            /\ wire' = r.sent
            /\ result' = [op |-> "construct", args |-> args, info |-> i,
                          login |-> l, players |-> p, out |-> r.out]
    /\ UNCHANGED SIMILAR_ARTISTS
    /\ MainUnchanged

\* remote.request(verb, path, data)
CallRequest ==
    /\ remote # NoObject
    /\ \E verb \in {"get", "post"}, resp \in AnyResps :
        LET r == Request(remote, verb, RemotePlayerPath,
                         IF verb = "post" THEN ListData ELSE PyNone, resp)
        IN  /\ wire' = r.sent
            /\ result' = [op |-> "request", verb |-> verb, resp |-> resp,
                          out |-> r.out]
    /\ UNCHANGED <<remote, SIMILAR_ARTISTS>>
    /\ MainUnchanged

\* remote.get_remote_player_id()
CallGetRemotePlayerId ==
    /\ remote # NoObject
    /\ \E resp \in PlayersResps :
        LET r == get_remote_player_id(remote, resp)
        IN  /\ remote' = r.self
            /\ wire' = r.sent
            /\ result' = [op |-> "get_remote_player_id", resp |-> resp,
                          out |-> r.out]
    /\ UNCHANGED SIMILAR_ARTISTS
    /\ MainUnchanged

\* remote.get_now_playing()
CallGetNowPlaying ==
    /\ remote # NoObject
    /\ \E resp \in StatusResps :
        LET r == get_now_playing(remote, resp)
        IN  /\ wire' = r.sent
            /\ result' = [op |-> "get_now_playing", resp |-> resp,
                          status |-> get_remote_player_status(remote, resp).out,
                          out |-> r.out]
    /\ UNCHANGED <<remote, SIMILAR_ARTISTS>>
    /\ MainUnchanged

\* remote.search_for_artist(artist)
CallSearchForArtist ==
    /\ remote # NoObject
    /\ \E artist \in {NameA, NameBad}, resp \in SearchResps :
        LET r == search_for_artist(remote, artist, resp)
        IN  /\ wire' = r.sent
            /\ result' = [op |-> "search_for_artist", artist |-> artist,
                          resp |-> resp, out |-> r.out]
    /\ UNCHANGED <<remote, SIMILAR_ARTISTS>>
    /\ MainUnchanged

ClientNext ==
    \/ Construct
    \/ CallRequest
    \/ CallGetRemotePlayerId
    \/ CallGetNowPlaying
    \/ CallSearchForArtist

ClientSpec == ClientInit /\ [][ClientNext]_vars

-----------------------------------------------------------------------------
(* Calling get_similar_artists on a constructed client *)

GoodInfo == Ok(AllCapabilities)
GoodLogin == Ok([sid |-> "s"])
GoodPlayers == Ok([players |-> Players(<<"Kitchen", REMOTE_PLAYER_NAME>>)])

\* the client setup() builds: remote_player is REMOTE_PLAYER_NAME and a
\* last.fm network is configured
SetupArgs ==
    [hostname |-> "dsm.local", port |-> "5001", account |-> "me",
     password |-> "pw", remote_player |-> REMOTE_PLAYER_NAME,
     last_fm_network |-> TRUE]

ArtistNames == {NameA, NameD}

LookupResps ==
    {Ok(Found(<<>>)), Ok(Found(<<NameAB>>)), Ok(Found(<<NameBC, NameD>>)),
     [delivered |-> TRUE, status_code |-> 200, json |-> [error |-> [code |-> 105]]]}

SimilarInit ==
    /\ IdleMain
    /\ remote = PostInit(SetupArgs, GoodInfo, GoodLogin, GoodPlayers).self
    /\ SIMILAR_ARTISTS = EmptyDict
    /\ wire = <<>>
    /\ result = NoCall

\* remote.get_similar_artists(artist)
CallGetSimilarArtists ==
    /\ \E artist \in ArtistNames, answer \in Answers :
        \E resps \in [1..(IF answer.kind = "ok" THEN Len(answer.names) ELSE 0)
                        -> LookupResps] :
            LET r == get_similar_artists(remote, SIMILAR_ARTISTS, artist,
                                         answer, resps)
            IN  /\ SIMILAR_ARTISTS' = r.cache
                /\ wire' = r.sent
                /\ result' = [op |-> "get_similar_artists", artist |-> artist,
                              out |-> r.out, lookups |-> r.lookups,
                              searches |-> Len(r.sent)]
    /\ UNCHANGED remote
    /\ MainUnchanged

SimilarNext == CallGetSimilarArtists

SimilarSpec == SimilarInit /\ [][SimilarNext]_vars

\* C8 as claimed: of two consecutive get_similar_artists calls for the same
\* artist that both return, the second returns what the first returned and
\* makes no last.fm lookup and no device search.
C8_Original ==
    [][(/\ result.op = "get_similar_artists"
        /\ result'.op = "get_similar_artists"
        /\ result'.artist = result.artist
        /\ ~Raised(result.out)
        /\ ~Raised(result'.out))
       => (/\ result'.out = result.out
           /\ result'.lookups = 0
           /\ result'.searches = 0)]_vars

-----------------------------------------------------------------------------
(* Properties of the client's API, under ClientSpec *)

\* the envelope of the answer to the last call
Json == result.resp.json

\* the status get_now_playing worked on, when the status query returned one
Status == result.status.value

HasStatus ==
    /\ result.op = "get_now_playing"
    /\ ~Raised(result.status)
    /\ Has(Status, "state")

\* C1: for both verbs and every status code, request raises RemotePlayerError
\* carrying the envelope's error payload when that payload is non-empty, and
\* returns the response when the field is absent or empty.
C1_RequestRaisesOnError ==
    (result.op = "request" /\ result.resp.delivered) =>
        IF Has(Json, "error") /\ Json.error # EmptyDict
        THEN result.out = Raise(RemotePlayerError, Json.error)
        ELSE result.out = Return(result.resp)

C1_Witness ==
    /\ result.op = "request"
    /\ result.verb = "get"
    /\ result.resp.delivered
    /\ result.resp.status_code = 200
    /\ Has(Json, "error") /\ Json.error = [code |-> 105]
    /\ result.out = Raise(RemotePlayerError, [code |-> 105])

\* C2: whenever the state of the player status is not `playing`,
\* get_now_playing returns None, whatever the song payload is.
C2_NoneUnlessPlaying ==
    (HasStatus /\ Status.state # "playing") => result.out = Return(PyNone)

C2_Witness ==
    /\ HasStatus
    /\ Status.state = "paused"
    /\ Has(Status, "song") /\ ~Has(Status.song, "additional")
    /\ result.out = Return(PyNone)

Playing == HasStatus /\ Status.state = "playing" /\ Has(Status, "song")

\* C3 as claimed: playing and no song_tag, the song having no `additional`
\* field included, raises RemotePlayerError("No info found").
C3_Original ==
    (Playing /\ (~Has(Status.song, "additional")
                 \/ ~Has(Status.song.additional, "song_tag")))
        => result.out = Raise(RemotePlayerError, NoInfoFound)

\* C3 as amended: playing with an `additional` field that holds no song_tag
\* raises RemotePlayerError("No info found"); playing with no `additional`
\* field raises KeyError.
C3_NoInfoFound ==
    /\ (Playing /\ Has(Status.song, "additional")
               /\ ~Has(Status.song.additional, "song_tag"))
        => result.out = Raise(RemotePlayerError, NoInfoFound)
    /\ (Playing /\ ~Has(Status.song, "additional"))
        => result.out = KeyError("additional")

C3_Witness ==
    /\ Playing
    /\ Has(Status.song, "additional")
    /\ Status.song.additional = [song_rating |-> 3]
    /\ result.out = Raise(RemotePlayerError, NoInfoFound)

Tagged ==
    /\ Playing
    /\ Has(Status.song, "title")
    /\ Has(Status.song, "additional")
    /\ Has(Status.song.additional, "song_tag")
    /\ Status.song.additional.song_tag # EmptyDict

\* C4: playing with tag metadata returns a dict whose keys are those of
\* song_tag plus `title`, every key of song_tag with its value, and `title`
\* with the song's title unless song_tag has a `title` of its own.
C4_TitleMergedWithTag ==
    Tagged =>
        LET tag == Status.song.additional.song_tag
        IN  /\ ~Raised(result.out)
            /\ DOMAIN result.out.value = DOMAIN tag \cup {"title"}
            /\ \A k \in DOMAIN tag : result.out.value[k] = tag[k]
            /\ ~Has(tag, "title") => result.out.value.title = Status.song.title

C4_Witness ==
    /\ Tagged
    /\ Status.song.title = "t2"
    /\ Status.song.additional.song_tag = Tag(NameA, "x") @@ [title |-> "own"]
    /\ result.out = Return(Tag(NameA, "x") @@ [title |-> "own"])

\* the construction got as far as asking for the player list, and got one
Listed ==
    /\ result.op = "construct"
    /\ Len(wire) = 3
    /\ result.players.delivered
    /\ ~Has(result.players.json, "error")
    /\ Has(result.players.json, "data")

Named(name) ==
    {i \in 1..Len(result.players.json.data.players) :
        result.players.json.data.players[i].name = name}

\* C5 as claimed: when the list holds a player named as the remote_player
\* argument, construction sets player_id to the id of such a player.
C5_Original ==
    (Listed /\ Named(result.args.remote_player) # {}) =>
        /\ remote # NoObject
        /\ \E i \in Named(result.args.remote_player) :
            remote.player_id = result.players.json.data.players[i].id

LoginRefused ==
    /\ result.op = "construct"
    /\ Len(wire) >= 2
    /\ Has(result.login.json, "error")
    /\ result.login.json.error # EmptyDict

\* C7: an error envelope in answer to login makes construction fail with
\* RemotePlayerError carrying that error, and no player list is requested.
C7_LoginErrorAborts ==
    LoginRefused =>
        /\ result.out = Raise(RemotePlayerError, result.login.json.error)
        /\ remote = NoObject
        /\ Len(wire) = 2
        /\ \A i \in 1..Len(wire) : wire[i].data # ListData

C7_Witness ==
    /\ LoginRefused
    /\ result.login.status_code = 200
    /\ result.out = Raise(RemotePlayerError, [code |-> 400])
    /\ wire[2].url.path.api = "SYNO.API.Auth"

-----------------------------------------------------------------------------
(* main(): the polling loop *)

SleepAfterIteration == 5
SleepAfterNetworkError == 10

StartInfoResps ==
    {GoodInfo, Undelivered,
     [delivered |-> TRUE, status_code |-> 200, json |-> [error |-> [code |-> 119]]]}

StartLoginResps ==
    {GoodLogin,
     [delivered |-> TRUE, status_code |-> 200, json |-> [error |-> [code |-> 400]]]}

StartPlayersResps == {GoodPlayers, Ok([players |-> Players(<<"Kitchen">>)])}

\* what a call of the pylast network may do
TrackerOutcomes == {NoExc, "NetworkError", "WSError"}

\* one call to a collaborator, as the loop makes it
Event(call, track, exc) ==
    [call |-> call, artist |-> track.artist, title |-> track.title, exc |-> exc]

\* A faulty test: `if info:`, without the comparison with the last track.
ChangedAlways(now, last) == now # PyNone /\ Truthy(now)

\* info and current_track != info
Changed(now, last) == now # PyNone /\ Truthy(now) /\ last # now

Init ==
    /\ remote = NoObject
    /\ network = FALSE
    /\ SIMILAR_ARTISTS = EmptyDict
    /\ current_track = EmptyDict
    /\ info = PyNone
    /\ pc = "top"
    /\ wire = <<>>
    /\ events = <<>>
    /\ waited = 0
    /\ failed = FALSE
    /\ polls = 0
    /\ fresh = FALSE
    /\ crash = NoCrash
    /\ result = NoCall

\* an exception nothing catches leaves main()
Crash(o) == pc' = "crashed" /\ crash' = o

\* lines 254-255, first iteration: network, remote = setup()
Setup ==
    /\ pc = "top"
    /\ ~(network \/ remote # NoObject)
    /\ \E i \in StartInfoResps, l \in StartLoginResps, p \in StartPlayersResps :
        LET r == PostInit(SetupArgs, i, l, p)
        IN  /\ wire' = r.sent
            /\ result' = [op |-> "setup", info |-> i, login |-> l,
                          players |-> p, out |-> r.out]
            /\ IF Raised(r.out)
               THEN Crash(r.out) /\ UNCHANGED <<remote, network>>
               ELSE /\ remote' = r.self
                    /\ network' = TRUE
                    /\ pc' = "poll"
                    /\ UNCHANGED crash
    /\ UNCHANGED <<SIMILAR_ARTISTS, current_track, info, events, waited,
                   failed, polls, fresh>>

\* A faulty test: after a caught NetworkError the loop "reconnects", it
\* calls setup() again.
SkipSetupReconnects ==
    /\ pc = "top"
    /\ (network \/ remote # NoObject)
    /\ IF failed
       THEN wire' = PostInit(SetupArgs, GoodInfo, GoodLogin, GoodPlayers).sent
       ELSE UNCHANGED wire
    /\ pc' = "poll"
    /\ UNCHANGED <<remote, network, SIMILAR_ARTISTS, current_track, info,
                   events, waited, failed, polls, fresh, crash, result>>

\* line 254, later iterations: the condition is false
SkipSetup ==
    /\ pc = "top"
    /\ (network \/ remote # NoObject)
    /\ pc' = "poll"
    /\ UNCHANGED <<remote, network, SIMILAR_ARTISTS, current_track, info, wire,
                   events, waited, failed, polls, fresh, crash, result>>

\* A faulty poll: a None answer (nothing playing) clears the last-seen track.
PollResetsOnNone ==
    /\ pc = "poll"
    /\ \E resp \in StatusResps :
        LET r == get_now_playing(remote, resp)
        IN  /\ wire' = r.sent
            /\ result' = [op |-> "get_now_playing", out |-> r.out]
            /\ IF Raised(r.out)
               THEN Crash(r.out) /\ UNCHANGED <<info, fresh, current_track>>
               ELSE /\ info' = r.out.value
                    /\ fresh' = (r.out.value # PyNone
                                 /\ r.out.value # current_track)
                    /\ pc' = IF Changed(r.out.value, current_track)
                             THEN "update" ELSE "sleep"
                    /\ current_track' = IF r.out.value = PyNone THEN EmptyDict
                                        ELSE current_track
                    /\ UNCHANGED crash
    /\ waited' = 0
    /\ failed' = FALSE
    /\ UNCHANGED <<remote, network, SIMILAR_ARTISTS, events, polls>>

\* A faulty poll: when get_now_playing raises, the client forgets its
\* player (self.player_id = None) before the exception leaves.
PollForgetsPlayer ==
    /\ pc = "poll"
    /\ \E resp \in StatusResps :
        LET r == get_now_playing(remote, resp)
        IN  /\ wire' = r.sent
            /\ result' = [op |-> "get_now_playing", out |-> r.out]
            /\ IF Raised(r.out)
               THEN /\ Crash(r.out)
                    /\ remote' = [remote EXCEPT !.player_id = 0]
                    /\ UNCHANGED <<info, fresh>>
               ELSE /\ info' = r.out.value
                    /\ fresh' = (r.out.value # PyNone
                                 /\ r.out.value # current_track)
                    /\ pc' = IF Changed(r.out.value, current_track)
                             THEN "update" ELSE "sleep"
                    /\ UNCHANGED <<crash, remote>>
    /\ waited' = 0
    /\ failed' = FALSE
    /\ UNCHANGED <<network, SIMILAR_ARTISTS, current_track, events, polls>>

\* lines 258-259: info = remote.get_now_playing() and the test on it
Poll ==
    /\ pc = "poll"
    /\ \E resp \in StatusResps :
        LET r == get_now_playing(remote, resp)
        IN  /\ wire' = r.sent
            /\ result' = [op |-> "get_now_playing", out |-> r.out]
            /\ IF Raised(r.out)
               THEN Crash(r.out) /\ UNCHANGED <<info, fresh>>
               ELSE /\ info' = r.out.value
                    /\ fresh' = (r.out.value # PyNone
                                 /\ r.out.value # current_track)
                    /\ pc' = IF Changed(r.out.value, current_track)
                             THEN "update" ELSE "sleep"
                    /\ UNCHANGED crash
    /\ waited' = 0
    /\ failed' = FALSE
    /\ UNCHANGED <<remote, network, SIMILAR_ARTISTS, current_track, events,
                   polls>>

\* A faulty handler: `except Exception:`, which catches every failure.
AfterTrackerCatchAll(exc, next) ==
    /\ pc' = IF exc = NoExc THEN next ELSE "except"
    /\ UNCHANGED crash

\* where a call's failure takes the loop: pylast.NetworkError is caught at
\* line 286, anything else leaves main()
AfterTracker(exc, next) ==
    IF exc = NoExc THEN pc' = next /\ UNCHANGED crash
    ELSE IF exc = "NetworkError" THEN pc' = "except" /\ UNCHANGED crash
    ELSE Crash([exc |-> exc])

\* the keys of info the loop subscripts, in the order it reads them
ReadOrder == <<"title", "artist", "album", "album_artist", "track">>

Unread(track) == {i \in 1..Len(ReadOrder) : ~Has(track, ReadOrder[i])}

\* lines 260-269: the log line and network.update_now_playing(...)
UpdateNowPlaying ==
    /\ pc = "update"
    /\ IF Unread(info) # {}
       THEN Crash(KeyError(ReadOrder[Min(Unread(info))])) /\ UNCHANGED events
       ELSE \E exc \in TrackerOutcomes :
                /\ events' = Append(events, Event("update_now_playing", info, exc))
                /\ AfterTracker(exc, "scrobble")
    /\ UNCHANGED <<remote, network, SIMILAR_ARTISTS, current_track, info, wire,
                   waited, failed, polls, fresh, result>>

\* A faulty order: current_track = copy.copy(info) before network.scrobble.
ScrobbleAfterAssign ==
    /\ pc = "scrobble"
    /\ \E exc \in TrackerOutcomes :
        /\ events' = Append(events, Event("scrobble", info, exc))
        /\ AfterTracker(exc, "similar")
        /\ current_track' = info
    /\ UNCHANGED <<remote, network, SIMILAR_ARTISTS, info, wire, waited,
                   failed, polls, fresh, result>>

\* lines 271-279: network.scrobble(...); current_track = copy.copy(info)
Scrobble ==
    /\ pc = "scrobble"
    /\ \E exc \in TrackerOutcomes :
        /\ events' = Append(events, Event("scrobble", info, exc))
        /\ AfterTracker(exc, "similar")
        /\ current_track' = IF exc = NoExc THEN info ELSE current_track
    /\ UNCHANGED <<remote, network, SIMILAR_ARTISTS, info, wire, waited,
                   failed, polls, fresh, result>>

\* the loop after get_similar_artists came back with r
AfterSimilar(r) ==
    /\ SIMILAR_ARTISTS' = r.cache
    /\ wire' = r.sent
    /\ events' = Append(events, Event("get_similar_artists", info, r.out.exc))
    /\ AfterTracker(r.out.exc, "sleep")

\* lines 281-285: remote.get_similar_artists(info["artist"]) and its log
SimilarArtists ==
    /\ pc = "similar"
    /\ \E answer \in Answers :
        \E resps \in [1..(IF answer.kind = "ok" THEN Len(answer.names) ELSE 0)
                        -> LookupResps] :
            AfterSimilar(get_similar_artists(remote, SIMILAR_ARTISTS,
                                             info.artist, answer, resps))
    /\ UNCHANGED <<remote, network, current_track, info, waited, failed,
                   polls, fresh, result>>

\* A faulty handler: it ends the iteration (a `continue` after its sleep).
ExceptContinue ==
    /\ pc = "except"
    /\ polls < MaxPolls
    /\ waited' = waited + SleepAfterNetworkError
    /\ failed' = TRUE
    /\ polls' = polls + 1
    /\ events' = <<>>
    /\ fresh' = FALSE
    /\ pc' = "top"
    /\ UNCHANGED <<remote, network, SIMILAR_ARTISTS, current_track, info, wire,
                   crash, result>>

\* lines 286-288: except pylast.NetworkError: time.sleep(10)
Except ==
    /\ pc = "except"
    /\ waited' = waited + SleepAfterNetworkError
    /\ failed' = TRUE
    /\ pc' = "sleep"
    /\ UNCHANGED <<remote, network, SIMILAR_ARTISTS, current_track, info, wire,
                   events, polls, fresh, crash, result>>

\* line 290: time.sleep(5), the end of the iteration
Sleep ==
    /\ pc = "sleep"
    /\ polls < MaxPolls
    /\ waited' = waited + SleepAfterIteration
    /\ polls' = polls + 1
    /\ events' = <<>>
    /\ fresh' = FALSE
    /\ pc' = "top"
    /\ UNCHANGED <<remote, network, SIMILAR_ARTISTS, current_track, info, wire,
                   failed, crash, result>>

Next ==
    \/ Setup
    \/ SkipSetup
    \/ Poll
    \/ UpdateNowPlaying
    \/ Scrobble
    \/ SimilarArtists
    \/ Except
    \/ Sleep

Spec == Init /\ [][Next]_vars

-----------------------------------------------------------------------------
(* Properties of the polling loop, under Spec *)

\* the loop is about to call get_now_playing again
NextPoll == pc = "poll" /\ polls > 0

\* C9 as claimed: 5 seconds pass between the end of an iteration and the
\* next get_now_playing call, 10 in total after a pylast.NetworkError.
C9_Original ==
    NextPoll =>
        waited = IF failed THEN SleepAfterNetworkError ELSE SleepAfterIteration

\* C9 as amended: 5 seconds after a normal iteration; after an iteration
\* that ended in pylast.NetworkError the 10 seconds of the handler and then
\* the 5 of every iteration, 15 in total.
C9_Cadence ==
    NextPoll =>
        waited = IF failed THEN SleepAfterNetworkError + SleepAfterIteration
                 ELSE SleepAfterIteration

C9_Witness ==
    /\ NextPoll
    /\ failed
    /\ waited = SleepAfterNetworkError + SleepAfterIteration

Order == <<"update_now_playing", "scrobble", "get_similar_artists">>

\* the collaborator calls of the current iteration, in the order made
Calls == [i \in 1..Len(events) |-> events[i].call]

\* C10 as claimed: an iteration that polled a track unlike the last-seen
\* one makes the three calls, in order; any other iteration makes none.
C10_Original ==
    pc = "sleep" => Calls = IF fresh THEN Order ELSE <<>>

\* C10 as amended: such an iteration calls update_now_playing, then scrobble
\* if the update did not raise, then get_similar_artists if the scrobble did
\* not raise, each for the polled track and never in another order; it ends
\* before the third call only on a pylast.NetworkError; any other iteration
\* makes none of the calls.
C10_InOrder ==
    /\ ~fresh => events = <<>>
    /\ Calls = SubSeq(Order, 1, Len(events))
    /\ \A i \in 1..Len(events) :
        /\ events[i].artist = info.artist /\ events[i].title = info.title
        /\ i < Len(events) => events[i].exc = NoExc
    /\ (pc = "sleep" /\ fresh) =>
        /\ events # <<>>
        /\ Len(events) < Len(Order) => events[Len(events)].exc = "NetworkError"

C10_Witness ==
    /\ pc = "sleep"
    /\ fresh
    /\ Calls = Order
    /\ \A i \in 1..Len(events) : events[i].exc = NoExc
    /\ current_track = info

\* the failure of the iteration's last collaborator call, NoExc if none
LastExc == IF events = <<>> THEN NoExc ELSE events[Len(events)].exc

\* C11: a pylast.NetworkError raised by update_now_playing or scrobble is
\* caught, main() does not end and goes on to its next iteration; any other
\* failure raised inside an iteration (get_now_playing raising
\* RemotePlayerError, a transport error of the device, a failure of the
\* tracker that is not a NetworkError) is not caught and ends main().
C11_OnlyNetworkErrorCaught ==
    [][/\ (pc' = "crashed") = (crash' # NoCrash)
       /\ crash'.exc # "NetworkError"
       /\ LastExc' = "NetworkError" => pc' \in {"except", "sleep"}
       /\ LastExc' \notin {NoExc, "NetworkError"} =>
            pc' = "crashed" /\ crash'.exc = LastExc'
       /\ (pc = "poll" /\ Raised(result'.out)) =>
            pc' = "crashed" /\ crash' = result'.out
       /\ pc = "except" => pc' = "sleep"
       /\ (pc = "sleep" /\ failed) => pc' = "top" /\ polls' = polls + 1
       /\ pc = "crashed" => FALSE]_vars

\* the iteration after a caught NetworkError of scrobble is polling
C11_Witness ==
    /\ pc = "poll"
    /\ polls > 0
    /\ failed
    /\ crash = NoCrash

-----------------------------------------------------------------------------
(* Further properties of the client's API, under ClientSpec *)

\* a name str.encode() rejects: it holds a lone surrogate
Unencodable(name) == \E i \in 1..Len(name) : name[i] = Surrogate

\* C12: search_for_artist with a name that cannot be encoded returns the
\* empty dict, raises nothing, and no request reaches the device.
C12_UnencodableNameEmpty ==
    (result.op = "search_for_artist" /\ Unencodable(result.artist)) =>
        /\ result.out = Return(EmptyDict)
        /\ wire = <<>>

C12_Witness ==
    /\ result.op = "search_for_artist"
    /\ result.artist = NameBad
    /\ result.resp = Ok(Found(<<NameAB>>))
    /\ result.out = Return(EmptyDict)
    /\ wire = <<>>

\* the key holds the letters A, u, d, i, o in a row
HasAudio(k) ==
    \E i \in 1..Len(k) :
        /\ i + 4 <= Len(k)
        /\ <<k[i], k[i + 1], k[i + 2], k[i + 3], k[i + 4]>>
            = <<"A", "u", "d", "i", "o">>

\* the capability-discovery answer the construction read
Discovered == result.info.json.data

Constructed == result.op = "construct" /\ ~Raised(result.out)

\* C13: after construction the client's versions are exactly the discovered
\* entries whose key contains "Audio": each of them kept with the descriptor
\* the device gave, every other entry dropped.
C13_AudioEntriesRetained ==
    Constructed =>
        /\ \A k \in DOMAIN Discovered :
                IF HasAudio(k)
                THEN Has(remote.versions, k) /\ remote.versions[k] = Discovered[k]
                ELSE ~Has(remote.versions, k)
        /\ \A k \in DOMAIN remote.versions : Has(Discovered, k)

C13_Witness ==
    /\ Constructed
    /\ Discovered = AllCapabilities
    /\ DOMAIN remote.versions = {KeyPlayer, KeyArtist}
    /\ remote.versions[KeyArtist] = Descriptor(4)

-----------------------------------------------------------------------------
(* Further properties of the polling loop, under Spec *)

\* the API a request addresses: in the body of a post, in the query of a get
Api(req) == IF req.data # PyNone THEN req.data.api ELSE req.url.path.api

\* the APIs of the requests a step sent, in the order sent
Apis(sent) == [i \in 1..Len(sent) |-> Api(sent[i])]

ConstructionOrder ==
    <<"SYNO.API.Info", "SYNO.API.Auth", "SYNO.AudioStation.RemotePlayer">>

OperationApis == {"SYNO.AudioStation.RemotePlayerStatus", "SYNO.AudioStation.Artist"}

IsPrefix(s, t) == Len(s) <= Len(t) /\ s = SubSeq(t, 1, Len(s))

\* C14: the requests of a construction are capability discovery, login,
\* player listing, in that order and each at most once; a client object
\* exists only after a construction in which all three were sent and none
\* failed; status and artist-search requests are sent only by such a client,
\* from its endpoint and for its player.
C14_ConstructionOrder ==
    [][/\ \/ IsPrefix(Apis(wire'), ConstructionOrder)
          \/ \A i \in 1..Len(wire') : Api(wire'[i]) \in OperationApis
       /\ remote' # remote =>
            /\ remote = NoObject
            /\ Apis(wire') = ConstructionOrder
            /\ crash' = NoCrash
       /\ \A i \in 1..Len(wire') :
            Api(wire'[i]) \in OperationApis =>
                /\ remote # NoObject
                /\ remote' = remote
                /\ wire'[i].url.endpoint = remote.endpoint
                /\ Has(wire'[i].data, "id") => wire'[i].data.id = remote.player_id]_vars

\* the loop holds the client the three requests built and polls with it
C14_Witness ==
    /\ pc = "update"
    /\ polls = 0
    /\ remote # NoObject
    /\ Apis(wire) = <<"SYNO.AudioStation.RemotePlayerStatus">>
    /\ wire[1].data.id = remote.player_id

\* the device refused or did not deliver the answer to a request
Refused(resp) ==
    \/ ~resp.delivered
    \/ Has(resp.json, "error") /\ Truthy(resp.json.error)

\* the initialization step that fails, given the device's three answers:
\* 1 discovery, 2 login, 3 player resolution, 0 when none fails
FailingStep(i, l, p) ==
    IF Refused(i) \/ ~Has(i.json, "data") THEN 1
    ELSE IF Refused(l) THEN 2
    ELSE IF Refused(p) \/ ~Has(p.json, "data") \/ ~Has(p.json.data, "players")
            \/ \A n \in 1..Len(p.json.data.players) :
                    p.json.data.players[n].name # REMOTE_PLAYER_NAME
    THEN 3
    ELSE 0

SetupStep == FailingStep(result.info, result.login, result.players)

Iterating == pc \in {"poll", "update", "scrobble", "similar", "except", "sleep"}

\* C15: when capability discovery, login or player resolution fails, the
\* failing request is the last one of the construction, setup() returns no
\* client and main() ends without polling; the loop iterates only with a
\* client whose three steps succeeded.
C15_FailedConstructionAborts ==
    /\ (result.op = "setup" /\ SetupStep # 0) =>
        /\ Raised(result.out)
        /\ Apis(wire) = SubSeq(ConstructionOrder, 1, SetupStep)
        /\ remote = NoObject
        /\ network = FALSE
        /\ pc = "crashed"
        /\ crash = result.out
        /\ polls = 0
        /\ info = PyNone
    /\ (Iterating \/ polls > 0 \/ info # PyNone) =>
        /\ remote # NoObject
        /\ Has(remote, "endpoint") /\ Has(remote, "versions")
        /\ Has(remote, "player_id")
        /\ network

\* the login was refused: two requests went out, main() ended
C15_Witness ==
    /\ result.op = "setup"
    /\ SetupStep = 2
    /\ Len(wire) = 2
    /\ remote = NoObject
    /\ pc = "crashed"
    /\ crash.exc = RemotePlayerError

\* C16: once the client is constructed, no step of the loop, whether its
\* get_now_playing (with get_remote_player_status) or get_similar_artists
\* (with search_for_artist) returns or raises, changes the client's endpoint,
\* its retained capability descriptors or its player_id.
C16_SessionFrame ==
    [][remote # NoObject =>
        /\ remote' # NoObject
        /\ remote'.endpoint = remote.endpoint
        /\ remote'.versions = remote.versions
        /\ remote'.player_id = remote.player_id]_vars

\* get_now_playing returned, then a device search of get_similar_artists
\* raised: the client is as setup() built it
C16_Witness ==
    /\ pc = "crashed"
    /\ LastExc = RemotePlayerError
    /\ events[Len(events)].call = "get_similar_artists"
    /\ result.op = "get_now_playing"
    /\ ~Raised(result.out)
    /\ remote = PostInit(SetupArgs, GoodInfo, GoodLogin, GoodPlayers).self

InitializationApis == {ConstructionOrder[i] : i \in 1..Len(ConstructionOrder)}

FirstIteration == polls = 0

\* C17: main() constructs its client, and logs in, once, when its first
\* iteration begins; no step of a later iteration, a caught NetworkError
\* before it or not, replaces the client or the network or sends a
\* discovery, login or player-listing request.
C17_ConstructedOnce ==
    [][IF pc = "top" /\ FirstIteration
       THEN /\ remote = NoObject
            /\ Api(wire'[1]) = ConstructionOrder[1]
            /\ Len(wire') >= 2 => Api(wire'[2]) = "SYNO.API.Auth"
            /\ \A i \in 3..Len(wire') : Api(wire'[i]) # "SYNO.API.Auth"
            /\ (remote' # NoObject /\ network') \/ pc' = "crashed"
       ELSE /\ remote' = remote
            /\ network' = network
            /\ \A i \in 1..Len(wire') : Api(wire'[i]) \notin InitializationApis]_vars

\* the second iteration, after a caught NetworkError, polls with the client
\* of the first
C17_Witness ==
    /\ pc = "poll"
    /\ polls = 1
    /\ failed
    /\ remote = PostInit(SetupArgs, GoodInfo, GoodLogin, GoodPlayers).self
    /\ \A i \in 1..Len(wire) : Api(wire[i]) \notin InitializationApis

\* the previous iteration polled the track `info` and a NetworkError of
\* update_now_playing or scrobble ended it: the last-seen track is not it
RetryDue == pc = "poll" /\ failed /\ info # PyNone /\ current_track # info

\* C18: the last-seen track is replaced only by the step in which scrobble
\* returns, after update_now_playing returned, and then by the polled track;
\* a NetworkError of either call leaves it as it was up to the next poll;
\* and when that poll reports the same track again, the loop calls
\* update_now_playing for it again and, when that returns, scrobble.
C18_LastSeenAfterScrobble ==
    [][/\ current_track' # current_track =>
            /\ pc = "scrobble"
            /\ Calls' = <<"update_now_playing", "scrobble">>
            /\ \A i \in 1..Len(events') : events'[i].exc = NoExc
            /\ current_track' = info
       /\ (pc \in {"update", "scrobble"} /\ LastExc' = "NetworkError") =>
            /\ pc' = "except"
            /\ current_track' = current_track
            /\ current_track' # info
       /\ (pc \in {"except", "sleep", "top"} /\ failed) =>
            current_track' = current_track /\ info' = info
       /\ (RetryDue /\ pc' # "crashed" /\ info' = info) => pc' = "update"
       /\ (pc = "update" /\ pc' # "crashed") =>
            /\ Calls' = <<"update_now_playing">>
            /\ events'[1].artist = info.artist /\ events'[1].title = info.title
            /\ LastExc' = NoExc => pc' = "scrobble"
       /\ pc = "scrobble" =>
            /\ Calls' = <<"update_now_playing", "scrobble">>
            /\ events'[2].artist = info.artist /\ events'[2].title = info.title
      ]_vars

\* scrobble raised NetworkError after update_now_playing returned: the
\* iteration ends with the last-seen track still the one before
C18_Witness ==
    /\ pc = "sleep"
    /\ failed
    /\ Calls = <<"update_now_playing", "scrobble">>
    /\ LastExc = "NetworkError"
    /\ info # PyNone
    /\ current_track # info

\* the scrobbles of the current iteration
Scrobbles == {i \in 1..Len(events) : events[i].call = "scrobble"}

\* no call of the current iteration raised
AllSucceeded == \A i \in 1..Len(events) : events[i].exc = NoExc

\* C19: while no call raises, an iteration scrobbles exactly when
\* get_now_playing returned a track, not None, that differs from the track
\* scrobbled last (none at first), and it scrobbles that track, once, which
\* then is the track scrobbled last; a poll that returns the same track again
\* or None emits nothing and leaves the track scrobbled last as it is.
C19_ScrobbleOnChange ==
    [][/\ (pc = "poll" /\ pc' # "crashed") =>
            /\ (pc' = "update") = (info' # PyNone /\ info' # current_track)
            /\ pc' # "update" => pc' = "sleep"
            /\ events' = <<>>
            /\ current_track' = current_track
       /\ (pc = "update" /\ pc' # "crashed" /\ AllSucceeded') =>
            /\ pc' = "scrobble"
            /\ Scrobbles' = {}
            /\ current_track' = current_track
       /\ (pc = "scrobble" /\ AllSucceeded') =>
            /\ Scrobbles' = {Len(events')}
            /\ events'[Len(events')].artist = info.artist
            /\ events'[Len(events')].title = info.title
            /\ current_track' = info
       /\ (pc' = "sleep" /\ AllSucceeded' /\ ~failed') =>
            /\ (Scrobbles' # {}) = (info' # PyNone /\ fresh')
            /\ info' # PyNone => current_track' = info'
       /\ pc \notin {"poll", "update", "scrobble"} => current_track' = current_track
      ]_vars

\* the third poll returns the track scrobbled before: nothing is emitted
C19_Witness ==
    /\ pc = "sleep"
    /\ polls = MaxPolls
    /\ ~failed
    /\ info # PyNone
    /\ current_track = info
    /\ ~fresh
    /\ events = <<>>

=============================================================================
